---- MODULE Spec2Model ----
(***************************************************************************)
(* PyKasaCloud: the cloud session (pykasacloud/api.py, KasaCloudApi) and   *)
(* the device registry (pykasacloud/kasacloud.py, PyKasaCloud).            *)
(*                                                                         *)
(* One caller drives one session.  A call is suspended only at the network *)
(* POST inside _async_request; the code between two POSTs is one step of   *)
(* the model.  The transport/server is the environment: it answers each    *)
(* POST with error_code 0 and a result, with the expired-token code, or    *)
(* with another non-zero code.  No exception is caught on the request path,*)
(* so a raise ends the whole call.                                         *)
(***************************************************************************)
EXTENDS Integers, Sequences, FiniteSets, TLC

\* ------------------------------------------------------------------ bounds
MaxNet == 4          \* the server answers "expired" only below this many POSTs of one call
MaxDevices == 2      \* longest device listing the server returns
MaxWrap == 1         \* deepest extra {"result": ...} nesting in a server result
MaxWords == 2        \* most words in a device name handed to the classification

\* --------------------------------------------------------------- constants
TOKEN_EXPIRED == 0 - 20651
API_URL == "API_URL"
APPTYPE == "APPTYPE"

Absent == "absent"   \* a key that is not in a dict
NoneVal == "None"    \* Python None
NoInt == 0 - 999     \* a number-valued key that is not in a dict, or is None

\* ------------------------------------------------------- token dictionaries
\* self._tokens: a dict; the keys the code ever reads or writes.
TokenKeys == {"token", "refresh_token", "resfresh_token", "client_id"}

NoneTokens == [k \in TokenKeys |-> NoneVal]
EmptyTokens == [k \in TokenKeys |-> Absent]

Has(d, k) == d[k] # Absent /\ d[k] # NoneVal

\* Python truthiness of self._tokens (None and {} are falsy).
Truthy(t) == \E k \in TokenKeys : Has(t, k)

\* The TokenSet built at login (api.py 81-85).
LoginTokens(token, refresh, client) ==
    [token |-> token, refresh_token |-> refresh,
     resfresh_token |-> Absent, client_id |-> client]

\* Dicts a caller may pass as tokens= : the login shape, the shape the refresh
\* code reads, a dict holding only an access token, and the empty dict.
SuppliedTokens ==
    { LoginTokens("t0", "r0", "c0"),
      [token |-> "t0", refresh_token |-> Absent, resfresh_token |-> "r0", client_id |-> "c0"],
      [token |-> "t0", refresh_token |-> Absent, resfresh_token |-> Absent, client_id |-> Absent],
      EmptyTokens }

FreshTokens == {"t1", "t2"}       \* access tokens the server hands out
UUID == "uuid"                    \* str(uuid.uuid4())

\* ------------------------------------------------------------ device records
PlugName == <<"P", "l", "u", "g">>
SwitchName == <<"S", "w", "i", "t", "c", "h">>
LampName == <<"L", "a", "m", "p">>

\* re.search(sub, name) is not None, for a literal pattern.
Contains(sub, name) ==
    \E i \in 0..(Len(name) - Len(sub)) :
        \A j \in 1..Len(sub) : name[i + j] = sub[j]

\* A listing entry: the keys the code reads.  hasModel/model is the key "model"
\* (light.py 86), which is not deviceModel.
Record(id, type, name, acct) ==
    [deviceId |-> id, deviceType |-> type, deviceName |-> name, accountApiUrl |-> acct,
     deviceModel |-> "KL130(US)", deviceHwVer |-> "1.0", status |-> 1,
     appServerUrl |-> "app", hasModel |-> FALSE, model |-> <<>>]

DeviceRecords ==
    { Record("d1", "IOT.SMARTPLUGSWITCH", PlugName, "acct"),
      Record("d2", "IOT.SMARTBULB", LampName, Absent),
      Record("d3", "IOT.UNKNOWN", LampName, Absent) }

Listings == UNION { [1..n -> DeviceRecords] : n \in 0..MaxDevices }

\* _async_get_device testing for "Switch" before "Plug".
ClassifySwitchFirst(device) ==
    IF device.deviceType = "IOT.SMARTPLUGSWITCH" /\ Contains(SwitchName, device.deviceName)
    THEN "Switch"
    ELSE IF device.deviceType = "IOT.SMARTPLUGSWITCH" /\ Contains(PlugName, device.deviceName)
    THEN "Plug"
    ELSE IF device.deviceType = "IOT.SMARTBULB"
    THEN "Light"
    ELSE "unknown"

\* PyKasaCloud._async_get_device: the variant, or "unknown" where it raises.
Classify(device) ==
    IF device.deviceType = "IOT.SMARTPLUGSWITCH" /\ Contains(PlugName, device.deviceName)
    THEN "Plug"
    ELSE IF device.deviceType = "IOT.SMARTPLUGSWITCH" /\ Contains(SwitchName, device.deviceName)
    THEN "Switch"
    ELSE IF device.deviceType = "IOT.SMARTBULB"
    THEN "Light"
    ELSE "unknown"

\* The constructors: the exception each raises on a record, or "none".
\* KasaDevice.__init__ (device.py 27-32)
KasaDeviceInit(data) ==
    IF data.deviceId \in {Absent, NoneVal, ""} THEN "KasaCloudError" ELSE "none"

\* KasaPlug.__init__ (plug_switch.py 14-21); isSwitch: self is a KasaSwitch
KasaPlugInit(data, isSwitch) ==
    IF /\ ~isSwitch
       /\ ~(data.deviceType = "IOT.SMARTPLUGSWITCH" /\ Contains(PlugName, data.deviceName))
    THEN "ValueError"
    ELSE KasaDeviceInit(data)

\* KasaSwitch.__init__ (plug_switch.py 52-59)
KasaSwitchInit(data) ==
    IF ~(data.deviceType = "IOT.SMARTPLUGSWITCH" /\ Contains(SwitchName, data.deviceName))
    THEN "ValueError"
    ELSE KasaPlugInit(data, TRUE)

\* KasaLight.__init__ (light.py 20-24)
KasaLightInit(data) ==
    IF data.deviceType # "IOT.SMARTBULB" THEN "ValueError" ELSE KasaDeviceInit(data)

Construct(variant, data) ==
    CASE variant = "Plug" -> KasaPlugInit(data, FALSE)
      [] variant = "Switch" -> KasaSwitchInit(data)
      [] OTHER -> KasaLightInit(data)

\* PyKasaCloud._async_get_device with the constructor it calls: the Device's
\* variant, or the exception raised.
AsyncGetDevice(device) ==
    LET variant == Classify(device) IN
    IF variant = "unknown"
    THEN [done |-> TRUE, exc |-> "UnknownDeviceType", variant |-> "none"]
    ELSE [done |-> TRUE, exc |-> Construct(variant, device),
          variant |-> IF Construct(variant, device) = "none" THEN variant ELSE "none"]

\* Names handed to the classification: up to MaxWords words, one after another.
Words == { PlugName, SwitchName, LampName, <<"p", "l", "u", "g">>, <<"N", "o", "n", "e">> }

RECURSIVE Names(_)
Names(n) ==
    IF n = 0 THEN { <<>> }
    ELSE Names(n - 1) \cup { name \o word : name \in Names(n - 1), word \in Words }

ClassifyInputs ==
    { Record("d1", type, name, Absent) :
        type \in {"IOT.SMARTPLUGSWITCH", "IOT.SMARTBULB", "IOT.UNKNOWN", NoneVal},
        name \in Names(MaxWords) }

\* dict comprehension of kasacloud.py 68-71 / 44-47: the last record of an id wins.
LastIndex(list, id) ==
    CHOOSE i \in DOMAIN list :
        /\ list[i].deviceId = id
        /\ \A j \in DOMAIN list : list[j].deviceId = id => j <= i

BuildCache(list) ==
    [id \in { list[i].deviceId : i \in DOMAIN list } |->
        [variant |-> Classify(list[LastIndex(list, id)]),
         data |-> list[LastIndex(list, id)]]]

Classifiable(list) == \A i \in DOMAIN list : Classify(list[i]) # "unknown"

EmptyCache == [id \in {} |-> 0]

\* ------------------------------------------------------------ server results
\* The "result" member of a server response: a dict with the keys below,
\* wrapped in `wrap` extra layers of {"result": ...}.
\* A dict of number-valued keys: device sysinfo, a light state, a relay request.
FlatKeys ==
    {"err_code", "is_dimmable", "is_color", "is_variable_color_temp", "relay_state",
     "state", "on_off", "brightness", "hue", "saturation", "color_temp",
     "transition_period", "ignore_default"}
EmptyFlat == [k \in FlatKeys |-> NoInt]

\* A device's answer to one sub-request, and KasaDevice.info: number-valued keys
\* and the key "light_state" holding a light state.
SubResponse(d) == [d |-> d, has_ls |-> FALSE, light_state |-> EmptyFlat]
EmptyInfo == SubResponse(EmptyFlat)

\* A decoded passthrough response: {request_type: {subrequest_type: answer}}.
EmptyDict == [t \in {} |-> 0]
Nested(type, sub, answer) == [t \in {type} |-> [u \in {sub} |-> answer]]

\* The value of responseData: a JSON text, or the key is missing.
NoData == [present |-> FALSE, text |-> EmptyDict]
JsonDumps(dict) == [present |-> TRUE, text |-> dict]

EmptyBody ==
    [token |-> Absent, refreshToken |-> Absent, hasList |-> FALSE,
     deviceList |-> <<>>, responseData |-> NoData, data |-> EmptyDict]

AuthBody(t, r) == [EmptyBody EXCEPT !.token = t, !.refreshToken = r]
TokenBody(t) == [EmptyBody EXCEPT !.token = t]
ListBody(l) == [EmptyBody EXCEPT !.hasList = TRUE, !.deviceList = l]

\* a JSON text carried in responseData
SysinfoJson == JsonDumps(Nested("system", "get_sysinfo", SubResponse([EmptyFlat EXCEPT !["err_code"] = 0])))
JsonLoads(json) == [EmptyBody EXCEPT !.data = json.text]
PassthroughBody == [EmptyBody EXCEPT !.responseData = SysinfoJson]

Val(w, b) == [wrap |-> w, body |-> b]
NoVal == Val(0, EmptyBody)

\* dict key lookup on a decoded value
HasKey(v, k) ==
    IF k = "result" THEN v.wrap > 0
    ELSE /\ v.wrap = 0
         /\ CASE k = "deviceList" -> v.body.hasList
              [] k = "responseData" -> v.body.responseData.present
              [] OTHER -> v.body[k] # Absent

\* api.py 183-187: response = response["result"], then the responseData unwrap.
Unwrap(v) ==
    LET r == Val(v.wrap - 1, v.body) IN
    IF HasKey(r, "responseData") THEN Val(0, JsonLoads(r.body.responseData)) ELSE r

\* What the server may put in "result" when it answers a method with error_code 0.
BodiesFor(method) ==
    CASE method = "login" -> { AuthBody("t1", "r1"), EmptyBody }
      [] method = "refreshToken" -> { TokenBody(t) : t \in FreshTokens } \cup { EmptyBody }
      [] method = "getDeviceList" -> { ListBody(l) : l \in Listings } \cup { EmptyBody }
      [] OTHER -> { PassthroughBody, EmptyBody }

ErrorCodes == { 0 - 1, 0 - 20571 }       \* non-zero codes other than TOKEN_EXPIRED

\* ------------------------------------------------------ passthrough answers
\* async_passthrough_request with its test of err_code lost.
UnwrapPassthroughAnyCode(response, request_type, subrequest_type) ==
    IF request_type \notin DOMAIN response
    THEN [done |-> TRUE, exc |-> "KasaCloudError", names |-> <<request_type>>,
          ret |-> EmptyInfo]
    ELSE IF subrequest_type \notin DOMAIN response[request_type]
    THEN [done |-> TRUE, exc |-> "KasaCloudError",
          names |-> <<request_type, subrequest_type>>, ret |-> EmptyInfo]
    ELSE [done |-> TRUE, exc |-> "none", names |-> <<>>,
          ret |-> response[request_type][subrequest_type]]

\* KasaCloudApi.async_passthrough_request after the request returned
\* (api.py 127-147): the sub-response, or the error and the names in its message.
UnwrapPassthrough(response, request_type, subrequest_type) ==
    IF request_type \notin DOMAIN response
    THEN [done |-> TRUE, exc |-> "KasaCloudError", names |-> <<request_type>>,
          ret |-> EmptyInfo]
    ELSE IF subrequest_type \notin DOMAIN response[request_type]
    THEN [done |-> TRUE, exc |-> "KasaCloudError",
          names |-> <<request_type, subrequest_type>>, ret |-> EmptyInfo]
    ELSE IF response[request_type][subrequest_type].d["err_code"] \notin {NoInt, 0}
    THEN [done |-> TRUE, exc |-> "KasaCloudError", names |-> <<>>, ret |-> EmptyInfo]
    ELSE [done |-> TRUE, exc |-> "none", names |-> <<>>,
          ret |-> response[request_type][subrequest_type]]

\* Decoded responses handed to it: dicts over two request types and two
\* sub-request types, with answers that differ in err_code and content.
RequestTypes == {"system", "netif"}
SubTypes == {"get_sysinfo", "set_relay_state"}
Answers ==
    { SubResponse([EmptyFlat EXCEPT !["err_code"] = e, !["relay_state"] = 1]) :
        e \in {NoInt, 0, 0 - 1} }
    \cup { SubResponse([EmptyFlat EXCEPT !["err_code"] = 0]) }

Dicts(keys, values) == UNION { [ks -> values] : ks \in SUBSET keys }
Responses == Dicts(RequestTypes, Dicts(SubTypes, Answers))

UnwrapInputs ==
    [response : Responses, request_type : RequestTypes, subrequest_type : SubTypes]

\* ----------------------------------------------------------------- payloads
\* requestData of a passthrough payload: {request_type: {subrequest_type: request}}
NoRequestData == [type |-> Absent, sub |-> Absent, request |-> EmptyFlat]

Payload(method) ==
    [method |-> method, hasParams |-> FALSE, token |-> Absent, appType |-> Absent,
     refreshToken |-> Absent, terminalUUID |-> Absent,
     deviceId |-> Absent, requestData |-> NoRequestData]

CallerPayloads ==
    { Payload("getDeviceList"), [Payload("passthrough") EXCEPT !.hasParams = TRUE] }

\* -------------------------------------------------------------------- state
VARIABLES
    session,        \* "none" | "ready": a KasaCloudApi object returned by auth
    tokens,         \* KasaCloudApi._tokens
    cache_token,    \* KasaCloudApi._cache_token
    has_callback,   \* KasaCloudApi._token_update_callback is not None
    cb_log,         \* TokenSets the callback was invoked with
    tokenFile,      \* the token storage file
    url,            \* KasaCloudApi._url
    registry,       \* "none" | "ready": a PyKasaCloud object
    file_cache,     \* PyKasaCloud._file_cache is set
    cache,          \* PyKasaCloud._cache
    devFile,        \* the device listing cache file
    listed,         \* a get/refresh of this registry has succeeded
    op,             \* the caller's running call
    stack,          \* frames of _async_request / _async_refresh_token, top first
    netlog,         \* the POSTs of the running (or last) call, in order, each with
                    \* the server's answer once it has arrived, and whether that
                    \* answer is the physical device's own
    last,           \* how the last call ended; reset when the next call starts
    classInfo,      \* KasaDevice.info, the class attribute
    ownInfo,        \* per Device object: whether it has an instance attribute info, and its value
    phys,           \* per deviceId: what the physical device holds (sysinfo, light state)
    input,          \* the argument of a function studied on its own
    output          \* its result

vars == << session, tokens, cache_token, has_callback, cb_log, tokenFile, url,
           registry, file_cache, cache, devFile, listed, op, stack, netlog, last,
           classInfo, ownInfo, phys, input, output >>

NoFile == [exists |-> FALSE, content |-> EmptyTokens]
NoDevFile == [exists |-> FALSE, content |-> NoVal]
NoArgs == [username |-> FALSE, password |-> FALSE, tok |-> NoneTokens]

\* The arguments of a device command; NoInt is an argument left at None.
NoCmd ==
    [brightness |-> NoInt, isInt |-> TRUE, hue |-> NoInt, saturation |-> NoInt,
     temp |-> NoInt, transition |-> NoInt]

\* What a device command returned: a bool, numbers, a set of capabilities, a dict.
NoOut == [bool |-> FALSE, nums |-> <<>>, caps |-> {}, dict |-> EmptyInfo]

\* pt: the requestData of the passthrough request the command is waiting for
Idle == [name |-> "idle", client |-> Absent, args |-> NoArgs,
         dev |-> Absent, pt |-> NoRequestData, cmd |-> NoCmd]
NoLast == [op |-> "none", args |-> NoArgs, exc |-> "none", code |-> 0, ret |-> NoVal,
           dev |-> Absent, cmd |-> NoCmd, out |-> NoOut]

DeviceIds == {"d1", "d2", "d3"}
NoOwnInfo == [id \in DeviceIds |-> [own |-> FALSE, info |-> EmptyInfo]]
NoPhys == [id \in DeviceIds |-> [sysinfo |-> EmptyFlat, light_state |-> EmptyFlat]]
NotRun == "not run"

\* The state as one record, so that the code between two POSTs is a function.
Cur ==
    [session |-> session, tokens |-> tokens, cache_token |-> cache_token,
     has_callback |-> has_callback, cb_log |-> cb_log, tokenFile |-> tokenFile,
     url |-> url, registry |-> registry, file_cache |-> file_cache, cache |-> cache,
     devFile |-> devFile, listed |-> listed, op |-> op, stack |-> stack,
     netlog |-> netlog, last |-> last,
     classInfo |-> classInfo, ownInfo |-> ownInfo, phys |-> phys]

Becomes(M) ==
    /\ session' = M.session /\ tokens' = M.tokens /\ cache_token' = M.cache_token
    /\ has_callback' = M.has_callback /\ cb_log' = M.cb_log /\ tokenFile' = M.tokenFile
    /\ url' = M.url /\ registry' = M.registry /\ file_cache' = M.file_cache
    /\ cache' = M.cache /\ devFile' = M.devFile /\ listed' = M.listed /\ op' = M.op
    /\ stack' = M.stack /\ netlog' = M.netlog /\ last' = M.last
    /\ classInfo' = M.classInfo /\ ownInfo' = M.ownInfo /\ phys' = M.phys
    /\ UNCHANGED << input, output >>

\* No Device object exists.
NoDevices == classInfo = EmptyInfo /\ ownInfo = NoOwnInfo /\ phys = NoPhys

\* No function is under study.
NoFunction == input = NotRun /\ output = NotRun

\* Nothing has been constructed.
NoSession ==
    /\ session = "none" /\ tokens = NoneTokens /\ cache_token = TRUE
    /\ has_callback = FALSE /\ cb_log = <<>> /\ tokenFile = NoFile
    /\ url = API_URL
    /\ registry = "none" /\ file_cache = FALSE /\ cache = EmptyCache
    /\ devFile = NoDevFile /\ listed = FALSE
    /\ op = Idle /\ stack = <<>> /\ netlog = <<>> /\ last = NoLast

Init == NoSession /\ NoDevices /\ NoFunction

\* ------------------------------------------------------------ ends of a call
\* An exception leaves every frame; auth that raises returns no session.
Raise(M, exc, code) ==
    [M EXCEPT !.stack = <<>>, !.op = Idle,
              !.last = [op |-> M.op.name, args |-> M.op.args, exc |-> exc, code |-> code,
                        ret |-> NoVal, dev |-> M.op.dev, cmd |-> M.op.cmd, out |-> NoOut],
              !.session = IF M.op.name = "auth" THEN "none" ELSE M.session]

Return(M, val) ==
    [M EXCEPT !.stack = <<>>, !.op = Idle,
              !.last = [op |-> M.op.name, args |-> M.op.args, exc |-> "none", code |-> 0,
                        ret |-> val, dev |-> M.op.dev, cmd |-> M.op.cmd, out |-> NoOut]]

\* _cache_tokens without its test of _cache_token.
CacheTokensAlways(M) ==
    [M EXCEPT !.tokenFile = [exists |-> TRUE, content |-> M.tokens]]

\* KasaCloudApi._cache_tokens (api.py 99-103)
CacheTokens(M) ==
    IF M.cache_token
    THEN [M EXCEPT !.tokenFile = [exists |-> TRUE, content |-> M.tokens]]
    ELSE M

\* KasaCloudApi._async_request up to the POST (api.py 164-170)
Post(M, payload, target) ==
    LET p == [payload EXCEPT !.hasParams = TRUE, !.appType = APPTYPE]
        frame == [fn |-> "req", pc |-> "post", payload |-> p, url |-> target]
    IN [M EXCEPT !.stack = <<frame>> \o M.stack,
                 !.netlog = Append(M.netlog,
                               [payload |-> p,
                                url |-> IF target # NoneVal THEN target ELSE M.url,
                                answered |-> FALSE, code |-> 0, result |-> NoVal,
                                device |-> FALSE])]

\* KasaCloudApi.async_request (api.py 156-159)
AsyncRequest(M, payload, target) ==
    IF M.tokens = NoneTokens THEN Raise(M, "TypeError", 0)
    ELSE IF ~Has(M.tokens, "token") THEN Raise(M, "KeyError", 0)
    ELSE Post(M, [payload EXCEPT !.hasParams = TRUE, !.token = M.tokens["token"]], target)

\* KasaCloudApi._async_refresh_token up to its request (api.py 197-204)
RefreshToken(M) ==
    IF M.tokens = NoneTokens THEN Raise(M, "TypeError", 0)
    ELSE IF ~Has(M.tokens, "resfresh_token") \/ ~Has(M.tokens, "client_id")
    THEN Raise(M, "KeyError", 0)
    ELSE LET p == [Payload("refreshToken") EXCEPT
                      !.hasParams = TRUE,
                      !.refreshToken = M.tokens["resfresh_token"],
                      !.terminalUUID = M.tokens["client_id"]]
             frame == [fn |-> "refresh", pc |-> "await_request", payload |-> p, url |-> NoneVal]
         IN Post([M EXCEPT !.stack = <<frame>> \o M.stack], p, NoneVal)

\* ------------------------------------------------- what follows a response
\* KasaCloudApi.auth after the login request returned (api.py 81-88)
LoginTail(M, val) ==
    IF ~HasKey(val, "token") \/ ~HasKey(val, "refreshToken")
    THEN Raise(M, "KeyError", 0)
    ELSE LET M1 == [M EXCEPT !.tokens = LoginTokens(val.body.token, val.body.refreshToken,
                                                     M.op.client)]
             M2 == IF M1.cache_token THEN CacheTokens(M1) ELSE M1
         IN Return([M2 EXCEPT !.session = "ready"], NoVal)

\* async_refresh_devices that merges the new listing into the old mapping.
RefreshDevicesTailMerges(M, devices) ==
    LET list == devices.body.deviceList
        M1 == IF /\ HasKey(devices, "deviceList")
                 /\ Len(list) > 0
                 /\ list[1].accountApiUrl # Absent
              THEN [M EXCEPT !.url = list[1].accountApiUrl]
              ELSE M
        new == BuildCache(list)
    IN IF ~HasKey(devices, "deviceList") THEN Raise(M1, "KeyError", 0)
       ELSE IF ~Classifiable(list) THEN Raise(M1, "UnknownDeviceType", 0)
       ELSE LET M2 == [M1 EXCEPT !.cache = [id \in DOMAIN new \cup DOMAIN M.cache |->
                                               IF id \in DOMAIN new THEN new[id]
                                               ELSE M.cache[id]],
                                 !.listed = TRUE, !.ownInfo = NoOwnInfo]
                M3 == IF M2.file_cache
                      THEN [M2 EXCEPT !.devFile = [exists |-> TRUE, content |-> devices]]
                      ELSE M2
            IN Return(M3, NoVal)

\* async_refresh_devices that keeps the devices it could classify when a
\* record of the listing cannot be classified.
RefreshDevicesTailPartial(M, devices) ==
    LET list == devices.body.deviceList
        M1 == IF /\ HasKey(devices, "deviceList")
                 /\ Len(list) > 0
                 /\ list[1].accountApiUrl # Absent
              THEN [M EXCEPT !.url = list[1].accountApiUrl]
              ELSE M
        Known(record) == Classify(record) # "unknown"
    IN IF ~HasKey(devices, "deviceList") THEN Raise(M1, "KeyError", 0)
       ELSE IF ~Classifiable(list)
       THEN Raise([M1 EXCEPT !.cache = BuildCache(SelectSeq(list, Known))],
                  "UnknownDeviceType", 0)
       ELSE LET M2 == [M1 EXCEPT !.cache = BuildCache(list), !.listed = TRUE,
                                 !.ownInfo = NoOwnInfo]
                M3 == IF M2.file_cache
                      THEN [M2 EXCEPT !.devFile = [exists |-> TRUE, content |-> devices]]
                      ELSE M2
            IN Return(M3, NoVal)

\* PyKasaCloud.async_refresh_devices after the listing returned (kasacloud.py 60-76)
RefreshDevicesTail(M, devices) ==
    LET list == devices.body.deviceList
        M1 == IF /\ HasKey(devices, "deviceList")
                 /\ Len(list) > 0
                 /\ list[1].accountApiUrl # Absent
              THEN [M EXCEPT !.url = list[1].accountApiUrl]
              ELSE M
    IN IF ~HasKey(devices, "deviceList") THEN Raise(M1, "KeyError", 0)
       ELSE IF ~Classifiable(list) THEN Raise(M1, "UnknownDeviceType", 0)
       ELSE LET M2 == [M1 EXCEPT !.cache = BuildCache(list), !.listed = TRUE,
                                 !.ownInfo = NoOwnInfo]
                M3 == IF M2.file_cache
                      THEN [M2 EXCEPT !.devFile = [exists |-> TRUE, content |-> devices]]
                      ELSE M2
            IN Return(M3, NoVal)

\* ------------------------------------------------------------ Device objects
LightingService == "smartlife.iot.smartbulb.lightingservice"
NON_COLOR_MODE_FLAGS == {"transition_period", "on_off"}

\* kasa.iot.iotbulb.TPLINK_KELVIN (light.py 7): model pattern and range in Kelvin
TPLINK_KELVIN ==
    { [model |-> <<"L", "B", "1", "3", "0">>, lo |-> 2500, hi |-> 9000],
      [model |-> <<"L", "B", "1", "2", "0">>, lo |-> 2700, hi |-> 6500] }

\* re.match(pattern, string), for a literal pattern
Match(pattern, string) ==
    /\ Len(pattern) <= Len(string)
    /\ \A j \in 1..Len(pattern) : string[j] = pattern[j]

Data(M, d) == M.cache[d].data

\* KasaDevice.online (device.py 81-84)
Online(data) == data.status \notin {0, NoInt}

\* self.info: the instance attribute when the object has one, else the class
\* attribute KasaDevice.info (device.py 24)
InfoOf(M, d) == IF M.ownInfo[d].own THEN M.ownInfo[d].info ELSE M.classInfo

\* self.info = value (device.py 93)
AssignInfo(M, d, value) == [M EXCEPT !.ownInfo[d] = [own |-> TRUE, info |-> value]]

\* turn_on and turn_off that leave the cache as it was.
SetInfoKeySkipped(M, d, key, n) == M

\* self.info[key] = n: item assignment on the dict self.info names
SetInfoKey(M, d, key, n) ==
    IF M.ownInfo[d].own
    THEN [M EXCEPT !.ownInfo[d].info.d[key] = n]
    ELSE [M EXCEPT !.classInfo.d[key] = n]

\* self.info["light_state"] = answer
SetInfoLightState(M, d, answer) ==
    IF M.ownInfo[d].own
    THEN [M EXCEPT !.ownInfo[d].info.has_ls = TRUE, !.ownInfo[d].info.light_state = answer.d]
    ELSE [M EXCEPT !.classInfo.has_ls = TRUE, !.classInfo.light_state = answer.d]

ReturnOut(M, out) == [Return(M, NoVal) EXCEPT !.last.out = out]

\* KasaDevice._async_passthrough_request (device.py 53-64) and
\* KasaCloudApi.async_passthrough_request up to its request (api.py 115-125)
Passthrough(M, d, type, sub, request) ==
    LET rd == [type |-> type, sub |-> sub, request |-> request]
    IN AsyncRequest([M EXCEPT !.op.pt = rd],
                    [Payload("passthrough") EXCEPT !.hasParams = TRUE, !.deviceId = d,
                                                   !.requestData = rd],
                    Data(M, d).appServerUrl)

\* _get_info without its test of online.
GetInfoUnchecked(M, d) == Passthrough(M, d, "system", "get_sysinfo", EmptyFlat)

\* KasaDevice._get_info up to its request (device.py 90-93)
GetInfo(M, d) ==
    IF ~Online(Data(M, d)) THEN Raise(M, "MustBeOnline", 0)
    ELSE Passthrough(M, d, "system", "get_sysinfo", EmptyFlat)

\* capabilities() has to fetch sysinfo first: _check_info finds self.info falsy
\* (device.py 44-45, 86-88)
NeedsInfo(M, d) == Data(M, d).deviceType = "IOT.SMARTBULB" /\ InfoOf(M, d) = EmptyInfo

\* capabilities() that reports every bulb as dimmable, color and color-temperature.
CapsOfEveryFlag(M, d) ==
    LET data == Data(M, d)
        info == InfoOf(M, d).d
        bulb == data.deviceType = "IOT.SMARTBULB"
    IN [err |-> bulb /\ \E k \in {"is_dimmable", "is_color", "is_variable_color_temp"} :
                          info[k] = NoInt,
        caps |-> (IF data.deviceModel # "HS100(US)" \/ data.deviceHwVer # "1.0"
                  THEN {"NETINFO"} ELSE {})
                 \cup (IF bulb THEN {"DIMMABLE", "COLOR", "COLOR_TEMP"} ELSE {})]

\* capabilities() once _check_info is done (device.py 37-51): the flags, or
\* err when a key it reads is not in self.info
CapsOf(M, d) ==
    LET data == Data(M, d)
        info == InfoOf(M, d).d
        bulb == data.deviceType = "IOT.SMARTBULB"
        Flag(key, name) == IF bulb /\ info[key] \notin {NoInt, 0} THEN {name} ELSE {}
    IN [err |-> bulb /\ \E k \in {"is_dimmable", "is_color", "is_variable_color_temp"} :
                          info[k] = NoInt,
        caps |-> (IF data.deviceModel # "HS100(US)" \/ data.deviceHwVer # "1.0"
                  THEN {"NETINFO"} ELSE {})
                 \cup Flag("is_dimmable", "DIMMABLE") \cup Flag("is_color", "COLOR")
                 \cup Flag("is_variable_color_temp", "COLOR_TEMP")]

\* KasaLight._raise_for_invalid_brightness (light.py 219-223)
InvalidBrightness(value, isInt) ==
    IF ~isInt THEN "TypeError"
    ELSE IF ~(0 <= value /\ value <= 100) THEN "ValueError"
    ELSE "none"

\* KasaLight._raise_for_invalid_temperature_range after its capabilities()
\* (light.py 82-97)
InvalidTemperature(data, caps, temp) ==
    IF "COLOR_TEMP" \notin caps THEN "NotSupported"
    ELSE IF ~data.hasModel THEN "KeyError"
    ELSE IF \E e \in TPLINK_KELVIN :
               Match(e.model, data.model) /\ (temp < e.lo \/ temp > e.hi)
    THEN "ValueError"
    ELSE IF temp < 2700 \/ temp > 5000 THEN "ValueError"
    ELSE "none"

\* _set_light_state that sets ignore_default to 1 whatever the state holds.
SetLightStateAlwaysIgnores(M, d, light_state, isInt, transition) ==
    LET s1 == IF transition # NoInt
              THEN [light_state EXCEPT !["transition_period"] = transition]
              ELSE light_state
        s2 == IF s1["on_off"] = NoInt THEN [s1 EXCEPT !["on_off"] = 1] ELSE s1
        s3 == [s2 EXCEPT !["ignore_default"] = 1]
    IN IF s1["brightness"] # NoInt /\ InvalidBrightness(s1["brightness"], isInt) # "none"
       THEN Raise(M, InvalidBrightness(s1["brightness"], isInt), 0)
       ELSE Passthrough(M, d, LightingService, "transition_light_state", s3)

\* KasaLight._set_light_state up to its request (light.py 189-217)
SetLightState(M, d, light_state, isInt, transition) ==
    LET s1 == IF transition # NoInt
              THEN [light_state EXCEPT !["transition_period"] = transition]
              ELSE light_state
        s2 == IF s1["on_off"] = NoInt THEN [s1 EXCEPT !["on_off"] = 1] ELSE s1
        keys == { k \in FlatKeys : s2[k] # NoInt }
        s3 == [s2 EXCEPT !["ignore_default"] =
                  IF s2["on_off"] # 0 /\ keys \subseteq NON_COLOR_MODE_FLAGS THEN 0 ELSE 1]
    IN IF s1["brightness"] # NoInt /\ InvalidBrightness(s1["brightness"], isInt) # "none"
       THEN Raise(M, InvalidBrightness(s1["brightness"], isInt), 0)
       ELSE Passthrough(M, d, LightingService, "transition_light_state", s3)

\* KasaLight._get_light_state up to its request (light.py 182-186)
GetLightState(M, d) == Passthrough(M, d, LightingService, "get_light_state", EmptyFlat)

\* A command of a Light after its capabilities() (light.py 58-67, 71-75,
\* 103-115, 132-153, 157-161, 171-180; device.py 51)
LightBody(M) ==
    LET d == M.op.dev
        cmd == M.op.cmd
        name == M.op.name
        c == CapsOf(M, d)
        needs == CASE name \in {"set_brightness", "get_brightness"} -> {"DIMMABLE"}
                   [] name \in {"set_hsv", "get_hsv"} -> {"COLOR"}
                   [] name \in {"set_color_temp", "get_color_temp"} -> {"COLOR_TEMP"}
                   [] OTHER -> {}
        One(key, n) == [EmptyFlat EXCEPT ![key] = n]
    IN IF c.err THEN Raise(M, "KeyError", 0)
       ELSE IF ~(needs \subseteq c.caps) THEN Raise(M, "NotSupported", 0)
       ELSE CASE name = "capabilities" -> ReturnOut(M, [NoOut EXCEPT !.caps = c.caps])
              [] name = "set_brightness" ->
                    IF InvalidBrightness(cmd.brightness, cmd.isInt) # "none"
                    THEN Raise(M, InvalidBrightness(cmd.brightness, cmd.isInt), 0)
                    ELSE SetLightState(M, d, One("brightness", cmd.brightness), cmd.isInt,
                                       cmd.transition)
              [] name = "set_hsv" ->
                    IF ~(0 <= cmd.hue /\ cmd.hue <= 360) THEN Raise(M, "ValueError", 0)
                    ELSE IF ~(0 <= cmd.saturation /\ cmd.saturation <= 100)
                    THEN Raise(M, "ValueError", 0)
                    ELSE IF /\ cmd.brightness # NoInt
                            /\ InvalidBrightness(cmd.brightness, cmd.isInt) # "none"
                    THEN Raise(M, InvalidBrightness(cmd.brightness, cmd.isInt), 0)
                    ELSE SetLightState(M, d,
                             [EmptyFlat EXCEPT !["hue"] = cmd.hue,
                                               !["saturation"] = cmd.saturation,
                                               !["color_temp"] = 0,
                                               !["brightness"] = cmd.brightness],
                             cmd.isInt, cmd.transition)
              [] name = "set_color_temp" ->
                    IF InvalidTemperature(Data(M, d), c.caps, cmd.temp) # "none"
                    THEN Raise(M, InvalidTemperature(Data(M, d), c.caps, cmd.temp), 0)
                    ELSE SetLightState(M, d,
                             [EmptyFlat EXCEPT !["color_temp"] = cmd.temp,
                                               !["brightness"] = cmd.brightness],
                             cmd.isInt, cmd.transition)
              [] OTHER -> GetLightState(M, d)

\* A command that starts with capabilities() (device.py 34-45).
WithCapabilities(M) == IF NeedsInfo(M, M.op.dev) THEN GetInfo(M, M.op.dev) ELSE LightBody(M)

\* A key of a dict the code subscripts: KeyError when it is missing.
Subscript(M, dict, keys) ==
    IF \E i \in DOMAIN keys : dict[keys[i]] = NoInt THEN Raise(M, "KeyError", 0)
    ELSE ReturnOut(M, [NoOut EXCEPT !.nums = [i \in DOMAIN keys |-> dict[keys[i]]]])

\* The command of a Device resumes with the answer of its passthrough request.
DeviceContinue(M, answer) ==
    LET d == M.op.dev
        name == M.op.name
        sub == M.op.pt.sub
        light == M.cache[d].variant = "Light"
    IN CASE sub = "get_sysinfo" /\ light -> LightBody(AssignInfo(M, d, answer))
         [] sub = "get_sysinfo" /\ ~light ->
               \* KasaPlug.is_on (plug_switch.py 26-29), toggle (42-46)
               LET M1 == AssignInfo(M, d, answer)
                   on == IF answer.d["relay_state"] # NoInt
                         THEN answer.d["relay_state"] = 1
                         ELSE Data(M, d).status = 1
               IN IF name = "is_on" THEN ReturnOut(M1, [NoOut EXCEPT !.bool = on])
                  ELSE Passthrough(M1, d, "system", "set_relay_state",
                                   [EmptyFlat EXCEPT !["state"] = IF on THEN 0 ELSE 1])
         [] sub = "set_relay_state" ->
               \* KasaPlug.turn_on, turn_off (plug_switch.py 33-34, 38-39)
               ReturnOut(SetInfoKey(M, d, "relay_state", M.op.pt.request["state"]), NoOut)
         [] sub = "get_light_state" ->
               \* _get_light_state (light.py 184-187) and its callers
               LET M1 == SetInfoLightState(M, d, answer)
                   ls == answer.d
               IN CASE name = "get_brightness" -> Subscript(M1, ls, <<"brightness">>)
                    [] name = "get_color_temp" -> Subscript(M1, ls, <<"color_temp">>)
                    [] name = "get_hsv" ->
                          Subscript(M1, ls, <<"hue", "saturation", "brightness">>)
                    [] OTHER ->
                          \* KasaLight.is_on (light.py 28-29), toggle (39-42)
                          IF ls["on_off"] = NoInt THEN Raise(M1, "KeyError", 0)
                          ELSE IF name = "is_on"
                          THEN ReturnOut(M1, [NoOut EXCEPT !.bool = (ls["on_off"] = 1)])
                          ELSE SetLightState(M1, d,
                                  [EmptyFlat EXCEPT !["on_off"] = IF ls["on_off"] = 1 THEN 0 ELSE 1],
                                  TRUE, NoInt)
         [] OTHER ->
               \* transition_light_state returned (light.py 32, 35, 67, 153, 178)
               IF name \in {"turn_on", "turn_off", "toggle"}
               THEN ReturnOut(SetInfoLightState(M, d, answer), NoOut)
               ELSE ReturnOut(M, [NoOut EXCEPT !.dict = answer])

\* KasaCloudApi.async_passthrough_request after its request returned (api.py 125-147)
PassthroughTail(M, val) ==
    LET response == IF val.wrap = 0 THEN val.body.data ELSE EmptyDict
        r == UnwrapPassthrough(response, M.op.pt.type, M.op.pt.sub)
    IN IF r.exc # "none" THEN Raise(M, r.exc, 0) ELSE DeviceContinue(M, r.ret)

\* The caller of the outermost _async_request resumes.
OpContinue(M, val) ==
    CASE M.op.name = "auth" -> LoginTail(M, val)
      [] M.op.name \in {"get_devices", "refresh_devices"} -> RefreshDevicesTail(M, val)
      [] M.op.dev # Absent -> PassthroughTail(M, val)
      [] OTHER -> Return(M, val)

\* A frame returned val to the frame on top of M.stack (api.py 178-194, 205-206).
RECURSIVE Deliver(_, _)
Deliver(M, val) ==
    IF M.stack = <<>> THEN OpContinue(M, val)
    ELSE LET top == Head(M.stack) IN
         IF top.fn = "refresh"
         THEN IF ~HasKey(val, "token") THEN Raise(M, "KeyError", 0)
              ELSE LET M1 == CacheTokens([M EXCEPT !.tokens["token"] = val.body.token,
                                                   !.stack = Tail(M.stack)])
                       waiting == Head(M1.stack)
                       M2 == [M1 EXCEPT !.stack = <<[waiting EXCEPT !.pc = "await_retry"]>>
                                                  \o Tail(M1.stack)]
                   IN Post(M2, waiting.payload, waiting.url)
         ELSE IF ~HasKey(val, "result") THEN Raise(M, "KeyError", 0)
              ELSE Deliver([M EXCEPT !.stack = Tail(M.stack)], Unwrap(val))

\* --------------------------------------------------------------- operations
Start(name, client, args) ==
    [Cur EXCEPT !.op = [Idle EXCEPT !.name = name, !.client = client, !.args = args],
                !.netlog = <<>>, !.last = NoLast]

\* auth without its test of the password.
AuthPasswordUnchecked(username, password, tok, ct, cb) ==
    /\ op = Idle
    /\ LET M == [Start("auth", UUID, [username |-> username, password |-> password,
                                      tok |-> tok]) EXCEPT
                    !.session = "none", !.tokens = tok, !.cache_token = ct,
                    !.has_callback = cb, !.cb_log = <<>>, !.url = API_URL,
                    !.registry = "none", !.cache = EmptyCache, !.listed = FALSE]
           ready == [M EXCEPT !.session = "ready"]
       IN Becomes(
            IF Truthy(tok) THEN Return(ready, NoVal)
            ELSE IF ~username
            THEN IF tokenFile.exists
                 THEN Return([ready EXCEPT !.tokens = tokenFile.content], NoVal)
                 ELSE Raise(M, "MissingCredentials", 0)
            ELSE Post(M, [Payload("login") EXCEPT !.hasParams = TRUE, !.terminalUUID = UUID],
                      NoneVal))

\* KasaCloudApi.auth (api.py 34-88)
Auth(username, password, tok, ct, cb) ==
    /\ op = Idle
    /\ LET M == [Start("auth", UUID, [username |-> username, password |-> password,
                                      tok |-> tok]) EXCEPT
                    !.session = "none", !.tokens = tok, !.cache_token = ct,
                    !.has_callback = cb, !.cb_log = <<>>, !.url = API_URL,
                    !.registry = "none", !.cache = EmptyCache, !.listed = FALSE]
           ready == [M EXCEPT !.session = "ready"]
       IN Becomes(
            IF Truthy(tok) THEN Return(ready, NoVal)
            ELSE IF ~username
            THEN IF tokenFile.exists
                 THEN Return([ready EXCEPT !.tokens = tokenFile.content], NoVal)
                 ELSE Raise(M, "MissingCredentials", 0)
            ELSE IF ~password THEN Raise(M, "MissingCredentials", 0)
            ELSE Post(M, [Payload("login") EXCEPT !.hasParams = TRUE, !.terminalUUID = UUID],
                      NoneVal))

\* PyKasaCloud.__init__ (kasacloud.py 19-24)
NewRegistry(fc) ==
    /\ op = Idle /\ session = "ready"
    /\ registry' = "ready" /\ file_cache' = fc /\ cache' = EmptyCache /\ listed' = FALSE
    /\ netlog' = <<>> /\ last' = NoLast
    /\ UNCHANGED << session, tokens, cache_token, has_callback, cb_log, tokenFile, url,
                    devFile, op, stack, classInfo, ownInfo, phys, input, output >>

\* KasaCloudApi.async_request called by the user of the session
Request(payload) ==
    /\ op = Idle /\ session = "ready"
    /\ Becomes(AsyncRequest(Start("request", Absent, NoArgs), payload, NoneVal))

\* PyKasaCloud.async_refresh_devices (kasacloud.py 54-58)
RefreshDevices ==
    /\ op = Idle /\ registry = "ready"
    /\ Becomes(AsyncRequest(Start("refresh_devices", Absent, NoArgs), Payload("getDeviceList"), API_URL))

\* PyKasaCloud.async_get_devices (kasacloud.py 26-52)
GetDevices ==
    /\ op = Idle /\ registry = "ready"
    /\ LET M == Start("get_devices", Absent, NoArgs)
           devices == devFile.content
           list == devices.body.deviceList
           M1 == IF /\ HasKey(devices, "deviceList")
                    /\ Len(list) > 0
                    /\ list[1].accountApiUrl # Absent
                 THEN [M EXCEPT !.url = list[1].accountApiUrl]
                 ELSE M
       IN Becomes(
            IF DOMAIN cache # {} THEN Return(M, NoVal)
            ELSE IF file_cache /\ devFile.exists
            THEN IF ~HasKey(devices, "deviceList") THEN Raise(M1, "KeyError", 0)
                 ELSE IF ~Classifiable(list) THEN Raise(M1, "UnknownDeviceType", 0)
                 ELSE Return([M1 EXCEPT !.cache = BuildCache(list), !.listed = TRUE,
                                        !.ownInfo = NoOwnInfo], NoVal)
            ELSE AsyncRequest(M, Payload("getDeviceList"), API_URL))

\* ----------------------------------------------------- commands of a Device
StartCommand(name, d, cmd) ==
    [Start(name, Absent, NoArgs) EXCEPT !.op.dev = d, !.op.cmd = cmd]

IsDevice(d, variants) ==
    /\ op = Idle /\ session = "ready"
    /\ d \in DOMAIN cache /\ cache[d].variant \in variants

\* KasaDevice.capabilities (device.py 34-51)
Capabilities(d) ==
    /\ IsDevice(d, {"Plug", "Switch", "Light"})
    /\ Becomes(WithCapabilities(StartCommand("capabilities", d, NoCmd)))

\* KasaLight.set_brightness (light.py 163-180)
SetBrightness(d, brightness, isInt, transition) ==
    /\ IsDevice(d, {"Light"})
    /\ Becomes(WithCapabilities(StartCommand("set_brightness", d,
            [NoCmd EXCEPT !.brightness = brightness, !.isInt = isInt,
                          !.transition = transition])))

\* KasaLight.set_hsv (light.py 117-153)
SetHsv(d, hue, saturation, value) ==
    /\ IsDevice(d, {"Light"})
    /\ Becomes(WithCapabilities(StartCommand("set_hsv", d,
            [NoCmd EXCEPT !.hue = hue, !.saturation = saturation, !.brightness = value])))

\* KasaLight.set_color_temp (light.py 50-67)
SetColorTemp(d, temp, brightness) ==
    /\ IsDevice(d, {"Light"})
    /\ Becomes(WithCapabilities(StartCommand("set_color_temp", d,
            [NoCmd EXCEPT !.temp = temp, !.brightness = brightness])))

\* KasaLight.get_brightness (light.py 155-161)
GetBrightness(d) ==
    /\ IsDevice(d, {"Light"})
    /\ Becomes(WithCapabilities(StartCommand("get_brightness", d, NoCmd)))

\* KasaLight.get_hsv (light.py 99-115)
GetHsv(d) ==
    /\ IsDevice(d, {"Light"})
    /\ Becomes(WithCapabilities(StartCommand("get_hsv", d, NoCmd)))

\* KasaLight.get_color_temp (light.py 69-75)
GetColorTemp(d) ==
    /\ IsDevice(d, {"Light"})
    /\ Becomes(WithCapabilities(StartCommand("get_color_temp", d, NoCmd)))

\* The first request of is_on and of toggle: KasaLight._get_light_state
\* (light.py 28, 39), KasaPlug: _get_info (plug_switch.py 26, 43)
ReadState(M, d) ==
    IF M.cache[d].variant = "Light" THEN GetLightState(M, d) ELSE GetInfo(M, d)

\* turn_on and turn_off that read the state first, as toggle does.
SwitchReadsFirst(M, d, on) ==
    IF M.cache[d].variant = "Light" THEN GetLightState(M, d) ELSE GetInfo(M, d)

\* The request of turn_on and turn_off (light.py 32, 35; plug_switch.py 33, 38)
Switch(M, d, on) ==
    IF M.cache[d].variant = "Light"
    THEN SetLightState(M, d, [EmptyFlat EXCEPT !["on_off"] = on], TRUE, NoInt)
    ELSE Passthrough(M, d, "system", "set_relay_state", [EmptyFlat EXCEPT !["state"] = on])

\* KasaLight.is_on (light.py 26-29), KasaPlug.is_on (plug_switch.py 23-29)
IsOn(d) ==
    /\ IsDevice(d, {"Plug", "Switch", "Light"})
    /\ Becomes(ReadState(StartCommand("is_on", d, NoCmd), d))

\* KasaLight.turn_on (light.py 31-32), KasaPlug.turn_on (plug_switch.py 31-34)
TurnOn(d) ==
    /\ IsDevice(d, {"Plug", "Switch", "Light"})
    /\ Becomes(Switch(StartCommand("turn_on", d, NoCmd), d, 1))

\* KasaLight.turn_off (light.py 34-35), KasaPlug.turn_off (plug_switch.py 36-39)
TurnOff(d) ==
    /\ IsDevice(d, {"Plug", "Switch", "Light"})
    /\ Becomes(Switch(StartCommand("turn_off", d, NoCmd), d, 0))

\* KasaLight.toggle (light.py 37-42), KasaPlug.toggle (plug_switch.py 41-46)
Toggle(d) ==
    /\ IsDevice(d, {"Plug", "Switch", "Light"})
    /\ Becomes(ReadState(StartCommand("toggle", d, NoCmd), d))

\* ------------------------------------------------------ the server answers
Posted == stack # <<>> /\ Head(stack).pc = "post"

\* the method of the request the server is answering
PostedMethod == IF Posted THEN Head(stack).payload.method ELSE "none"

\* The state once the server's answer to the request in flight has arrived.
Answered(code, result) ==
    [Cur EXCEPT !.netlog[Len(netlog)].answered = TRUE,
                !.netlog[Len(netlog)].code = code,
                !.netlog[Len(netlog)].result = result]

\* error_code 0 (api.py 171-173, 183-194)
ReplyOk(w, body) ==
    /\ Posted
    /\ LET M == Answered(0, Val(w, body))
       IN Becomes(Deliver([M EXCEPT !.stack = Tail(stack)], Unwrap(Val(w + 1, body))))

\* error_code -20651 (api.py 174-176)
ReplyExpired ==
    /\ Posted
    /\ Len(netlog) < MaxNet
    /\ LET M == Answered(TOKEN_EXPIRED, NoVal)
       IN Becomes(RefreshToken([M EXCEPT !.stack = <<[Head(stack) EXCEPT !.pc = "await_refresh"]>>
                                                    \o Tail(stack)]))

\* ReplyError with the else branch lost: every non-zero code refreshes and retries.
ReplyErrorRefreshes(code) ==
    /\ Posted
    /\ LET M == Answered(code, NoVal)
       IN Becomes(RefreshToken([M EXCEPT !.stack = <<[Head(stack) EXCEPT !.pc = "await_refresh"]>>
                                                    \o Tail(stack)]))

\* The physical device behind a deviceId: it keeps its sysinfo and the light
\* state it was sent, and answers each sub-request from them.
StoredKeys == {"on_off", "brightness", "hue", "saturation", "color_temp"}
Good(flat) == SubResponse([flat EXCEPT !["err_code"] = 0])

DeviceDoes(ph, rd) ==
    CASE rd.sub = "get_sysinfo" -> [answer |-> Good(ph.sysinfo), ph |-> ph]
      [] rd.sub = "set_relay_state" ->
            [answer |-> Good(EmptyFlat),
             ph |-> IF ph.sysinfo["relay_state"] = NoInt THEN ph
                    ELSE [ph EXCEPT !.sysinfo["relay_state"] = rd.request["state"]]]
      [] rd.sub = "get_light_state" -> [answer |-> Good(ph.light_state), ph |-> ph]
      [] OTHER ->
            LET new == [k \in FlatKeys |->
                           IF k \in StoredKeys /\ rd.request[k] # NoInt
                           THEN rd.request[k] ELSE ph.light_state[k]]
            IN [answer |-> Good(new), ph |-> [ph EXCEPT !.light_state = new]]

\* The decoded responseData of a passthrough answer, and the device afterwards:
\* the device's answer, an answer with a non-zero err_code, an empty answer,
\* a response without the sub-request, a response without the request type.
AnswerKinds == {"ok", "err_code", "empty", "no sub", "no type"}

DeviceAnswer(ph, rd, kind) ==
    CASE kind = "ok" ->
            [dict |-> Nested(rd.type, rd.sub, DeviceDoes(ph, rd).answer),
             ph |-> DeviceDoes(ph, rd).ph]
      [] kind = "err_code" ->
            [dict |-> Nested(rd.type, rd.sub,
                             SubResponse([EmptyFlat EXCEPT !["err_code"] = 0 - 1])),
             ph |-> ph]
      [] kind = "empty" -> [dict |-> Nested(rd.type, rd.sub, EmptyInfo), ph |-> ph]
      [] kind = "no sub" -> [dict |-> [t \in {rd.type} |-> EmptyDict], ph |-> ph]
      [] OTHER -> [dict |-> EmptyDict, ph |-> ph]

\* error_code 0 for a passthrough request to a device (api.py 171-173, 183-194)
ReplyDevice(kind) ==
    /\ Posted /\ PostedMethod = "passthrough"
    /\ Head(stack).payload.deviceId \in DeviceIds
    /\ LET p == Head(stack).payload
           a == DeviceAnswer(phys[p.deviceId], p.requestData, kind)
           body == [EmptyBody EXCEPT !.responseData = JsonDumps(a.dict)]
           M == [Answered(0, Val(0, body)) EXCEPT !.phys[p.deviceId] = a.ph,
                                                  !.netlog[Len(netlog)].device = (kind = "ok")]
       IN Becomes(Deliver([M EXCEPT !.stack = Tail(stack)], Unwrap(Val(1, body))))

\* any other error_code (api.py 179-182)
ReplyError(code) ==
    /\ Posted
    /\ Becomes(Raise(Answered(code, NoVal), "KasaCloudError", code))

\* The session: a caller authenticates and sends authenticated requests.
Next ==
    \/ \E username, password, ct, cb \in BOOLEAN, tok \in SuppliedTokens \cup {NoneTokens} :
          Auth(username, password, tok, ct, cb)
    \/ \E payload \in CallerPayloads : Request(payload)
    \/ \E w \in 0..MaxWrap, body \in BodiesFor(PostedMethod) : ReplyOk(w, body)
    \/ ReplyExpired
    \/ \E code \in ErrorCodes : ReplyError(code)

Spec == Init /\ [][Next]_vars

\* The registry over a session obtained by auth(tokens=..., cache_token=False).
InitRegistry ==
    /\ session = "ready"
    /\ tokens \in { t \in SuppliedTokens : Has(t, "token") /\ Has(t, "client_id") }
    /\ cache_token = FALSE
    /\ has_callback = FALSE /\ cb_log = <<>> /\ tokenFile = NoFile
    /\ url = API_URL
    /\ registry = "none" /\ file_cache = FALSE /\ cache = EmptyCache
    /\ devFile = NoDevFile /\ listed = FALSE
    /\ op = Idle /\ stack = <<>> /\ netlog = <<>> /\ last = NoLast
    /\ NoDevices /\ NoFunction

NextRegistry ==
    \/ \E fc \in BOOLEAN : NewRegistry(fc)
    \/ RefreshDevices
    \/ GetDevices
    \/ \E w \in 0..MaxWrap, body \in BodiesFor(PostedMethod) : ReplyOk(w, body)
    \/ ReplyExpired
    \/ \E code \in ErrorCodes : ReplyError(code)

SpecRegistry == InitRegistry /\ [][NextRegistry]_vars

\* One Light of a session obtained by login.
ModelNames ==
    { <<"L", "B", "1", "3", "0", "(", "U", "S", ")">>, <<"X", "X">> }

Sysinfo(dimmable, color, temp) ==
    [EmptyFlat EXCEPT !["is_dimmable"] = dimmable, !["is_color"] = color,
                      !["is_variable_color_temp"] = temp]

StartLightState ==
    [EmptyFlat EXCEPT !["on_off"] = 1, !["brightness"] = 100, !["hue"] = 0,
                      !["saturation"] = 0, !["color_temp"] = 0]

Bulb(status, hasModel, model) ==
    [Record("d2", "IOT.SMARTBULB", LampName, Absent) EXCEPT
        !.status = status, !.hasModel = hasModel, !.model = model]

\* the listing entry of the bulb and the sysinfo the bulb reports
LightSetups ==
    { [data |-> Bulb(1, TRUE, m), sysinfo |-> Sysinfo(1, 1, 1)] : m \in ModelNames }
    \cup { [data |-> Bulb(1, FALSE, <<>>), sysinfo |-> Sysinfo(1, 1, 1)],
           [data |-> Bulb(0, FALSE, <<>>), sysinfo |-> Sysinfo(1, 1, 1)],
           [data |-> Bulb(1, TRUE, <<"X", "X">>), sysinfo |-> Sysinfo(1, 0, 1)],
           [data |-> Bulb(1, FALSE, <<>>), sysinfo |-> Sysinfo(0, 1, 0)],
           [data |-> Bulb(1, FALSE, <<>>), sysinfo |-> Sysinfo(0, 0, 0)] }

\* A session and a registry that has listed its devices; no command has run.
ReadySession(t) ==
    /\ session = "ready" /\ tokens = t /\ cache_token = FALSE
    /\ has_callback = FALSE /\ cb_log = <<>> /\ tokenFile = NoFile
    /\ url = API_URL
    /\ registry = "ready" /\ file_cache = FALSE /\ listed = TRUE /\ devFile = NoDevFile
    /\ op = Idle /\ stack = <<>> /\ netlog = <<>> /\ last = NoLast
    /\ classInfo = EmptyInfo /\ ownInfo = NoOwnInfo
    /\ NoFunction

InitLight ==
    /\ ReadySession(LoginTokens("t0", "r0", "c0"))
    /\ \E setup \in LightSetups :
          /\ cache = BuildCache(<<setup.data>>)
          /\ phys = [NoPhys EXCEPT !["d2"] = [sysinfo |-> setup.sysinfo,
                                             light_state |-> StartLightState]]

\* Arguments of the Light's setters: in range, at and beyond the ends of the
\* ranges, and not an integer.
BrightnessArgs ==
    { [NoCmd EXCEPT !.brightness = b] : b \in { 0 - 1, 0, 100, 101 } }
    \cup { [NoCmd EXCEPT !.brightness = 50, !.isInt = FALSE],
           [NoCmd EXCEPT !.brightness = 0, !.transition = 500] }
HsvArgs ==
    { [NoCmd EXCEPT !.hue = hs[1], !.saturation = hs[2]] :
        hs \in { <<0, 0>>, <<360, 100>>, <<361, 0>>, <<0 - 1, 0>>, <<0, 101>>, <<0, 0 - 1>> } }
    \cup { [NoCmd EXCEPT !.hue = 0, !.saturation = 0, !.brightness = 101] }
TemperatureArgs ==
    { [NoCmd EXCEPT !.temp = t] : t \in { 2600, 3000, 6000, 9500 } }
    \cup { [NoCmd EXCEPT !.temp = 3000, !.brightness = 101] }

NextLight ==
    \/ Capabilities("d2")
    \/ \E c \in BrightnessArgs : SetBrightness("d2", c.brightness, c.isInt, c.transition)
    \/ \E c \in HsvArgs : SetHsv("d2", c.hue, c.saturation, c.brightness)
    \/ \E c \in TemperatureArgs : SetColorTemp("d2", c.temp, c.brightness)
    \/ GetBrightness("d2")
    \/ GetHsv("d2")
    \/ GetColorTemp("d2")
    \/ IsOn("d2")
    \/ TurnOn("d2")
    \/ TurnOff("d2")
    \/ Toggle("d2")
    \/ \E kind \in AnswerKinds : ReplyDevice(kind)
    \/ ReplyExpired
    \/ \E code \in ErrorCodes : ReplyError(code)

SpecLight == InitLight /\ [][NextLight]_vars

\* A Plug and a Light of one session obtained by login.
PlugSetups ==
    { [data |-> [Record("d1", "IOT.SMARTPLUGSWITCH", PlugName, "acct") EXCEPT
                    !.deviceModel = "HS100(US)", !.status = status],
       sysinfo |-> [EmptyFlat EXCEPT !["relay_state"] = 0]] : status \in {0, 1} }

BulbSetups ==
    { [data |-> [Bulb(1, TRUE, <<"X", "X">>) EXCEPT !.deviceModel = "HS100(US)"],
       sysinfo |-> Sysinfo(1, 1, 1)],
      [data |-> [Bulb(1, TRUE, <<"X", "X">>) EXCEPT !.deviceModel = "HS100(US)",
                                                    !.deviceHwVer = "2.0"],
       sysinfo |-> Sysinfo(0, 0, 0)],
      [data |-> Bulb(1, TRUE, <<"X", "X">>), sysinfo |-> Sysinfo(1, 0, 1)],
      [data |-> Bulb(0, TRUE, <<"X", "X">>), sysinfo |-> Sysinfo(1, 1, 1)] }

InitDevices ==
    /\ ReadySession(LoginTokens("t0", "r0", "c0"))
    /\ \E plug \in PlugSetups, bulb \in BulbSetups :
          /\ plug.data.status = 1
          /\ cache = BuildCache(<<plug.data, bulb.data>>)
          /\ phys = [NoPhys EXCEPT
                        !["d1"] = [sysinfo |-> plug.sysinfo, light_state |-> EmptyFlat],
                        !["d2"] = [sysinfo |-> bulb.sysinfo, light_state |-> StartLightState]]

NextDevices ==
    \/ \E d \in {"d1", "d2"} : Capabilities(d)
    \/ \E d \in {"d1", "d2"} : IsOn(d)
    \/ \E d \in {"d1", "d2"} : TurnOn(d)
    \/ \E d \in {"d1", "d2"} : TurnOff(d)
    \/ \E d \in {"d1", "d2"} : Toggle(d)
    \/ \E kind \in AnswerKinds : ReplyDevice(kind)
    \/ ReplyExpired
    \/ \E code \in ErrorCodes : ReplyError(code)

SpecDevices == InitDevices /\ [][NextDevices]_vars

\* One Device, a Plug or a Light, of a session obtained with tokens in the
\* shape the refresh reads, so that a refresh can succeed.
InitCommands ==
    /\ ReadySession([token |-> "t0", refresh_token |-> Absent, resfresh_token |-> "r0",
                     client_id |-> "c0"])
    /\ \E setup \in PlugSetups \cup BulbSetups :
          /\ cache = BuildCache(<<setup.data>>)
          /\ phys = [NoPhys EXCEPT
                        ![setup.data.deviceId] =
                            [sysinfo |-> setup.sysinfo,
                             light_state |-> IF setup.data.deviceType = "IOT.SMARTBULB"
                                             THEN StartLightState ELSE EmptyFlat]]

NextCommands ==
    \/ \E d \in {"d1", "d2"} : Capabilities(d)
    \/ SetBrightness("d2", 100, TRUE, NoInt)
    \/ SetHsv("d2", 0, 0, NoInt)
    \/ SetColorTemp("d2", 3000, NoInt)
    \/ GetBrightness("d2")
    \/ GetHsv("d2")
    \/ GetColorTemp("d2")
    \/ \E d \in {"d1", "d2"} : IsOn(d)
    \/ \E d \in {"d1", "d2"} : TurnOn(d)
    \/ \E d \in {"d1", "d2"} : TurnOff(d)
    \/ \E d \in {"d1", "d2"} : Toggle(d)
    \/ \E kind \in AnswerKinds : ReplyDevice(kind)
    \/ \E body \in BodiesFor("refreshToken") : PostedMethod = "refreshToken" /\ ReplyOk(0, body)
    \/ ReplyExpired
    \/ \E code \in ErrorCodes : ReplyError(code)

SpecCommands == InitCommands /\ [][NextCommands]_vars

\* ------------------------------------------ functions studied on their own
Pending == [done |-> FALSE, exc |-> "none", variant |-> "none"]

\* The registry classifies one listing entry (kasacloud.py 78-95).
GetDevice ==
    /\ ~output.done
    /\ output' = AsyncGetDevice(input)
    /\ UNCHANGED << session, tokens, cache_token, has_callback, cb_log, tokenFile, url,
                    registry, file_cache, cache, devFile, listed, op, stack, netlog, last,
                    classInfo, ownInfo, phys, input >>

PendingUnwrap == [done |-> FALSE, exc |-> "none", names |-> <<>>, ret |-> EmptyInfo]

\* A passthrough request returned a decoded response (api.py 125-147).
PassthroughReturns ==
    /\ ~output.done
    /\ output' = UnwrapPassthrough(input.response, input.request_type, input.subrequest_type)
    /\ UNCHANGED << session, tokens, cache_token, has_callback, cb_log, tokenFile, url,
                    registry, file_cache, cache, devFile, listed, op, stack, netlog, last,
                    classInfo, ownInfo, phys, input >>

InitUnwrap ==
    /\ NoSession /\ NoDevices
    /\ input \in UnwrapInputs
    /\ output = PendingUnwrap

NextUnwrap == PassthroughReturns

SpecUnwrap == InitUnwrap /\ [][NextUnwrap]_vars

\* _set_light_state called on a Light with a partial state and a transition.
\* The method works on a copy of the dict it was passed (light.py 193), so the
\* caller's dict, input.state, stays as it is.
PartialStates ==
    { [EmptyFlat EXCEPT !["on_off"] = o, !["brightness"] = b, !["hue"] = h,
                        !["saturation"] = h, !["color_temp"] = t] :
        o \in {NoInt, 0, 1}, b \in {NoInt, 50, 101}, h \in {NoInt, 120},
        t \in {NoInt, 3000} }
SetLightStateInputs ==
    { [state |-> st, isInt |-> TRUE, transition |-> tr] :
        st \in PartialStates, tr \in {NoInt, 500} }
    \cup { [state |-> st, isInt |-> FALSE, transition |-> NoInt] :
             st \in { p \in PartialStates : p["brightness"] = 50 /\ p["hue"] = NoInt } }

SetLightStateCall ==
    /\ op = Idle /\ session = "ready"
    /\ Becomes(SetLightState(StartCommand("_set_light_state", "d2", NoCmd), "d2",
                             input.state, input.isInt, input.transition))

InitSetLightState ==
    /\ session = "ready" /\ cache_token = FALSE
    /\ tokens = [token |-> "t0", refresh_token |-> Absent, resfresh_token |-> "r0",
                 client_id |-> "c0"]
    /\ has_callback = FALSE /\ cb_log = <<>> /\ tokenFile = NoFile
    /\ url = API_URL
    /\ registry = "ready" /\ file_cache = FALSE /\ listed = TRUE /\ devFile = NoDevFile
    /\ op = Idle /\ stack = <<>> /\ netlog = <<>> /\ last = NoLast
    /\ classInfo = EmptyInfo /\ ownInfo = NoOwnInfo
    /\ \E status \in {0, 1} : cache = BuildCache(<<Bulb(status, TRUE, <<"X", "X">>)>>)
    /\ phys = [NoPhys EXCEPT !["d2"] = [sysinfo |-> Sysinfo(1, 1, 1),
                                       light_state |-> StartLightState]]
    /\ input \in SetLightStateInputs
    /\ output = NotRun

NextSetLightState ==
    \/ SetLightStateCall
    \/ \E kind \in AnswerKinds : ReplyDevice(kind)
    \/ \E body \in BodiesFor("refreshToken") : ReplyOk(0, body)
    \/ ReplyExpired
    \/ \E code \in ErrorCodes : ReplyError(code)

SpecSetLightState == InitSetLightState /\ [][NextSetLightState]_vars

InitClassify ==
    /\ NoSession /\ NoDevices
    /\ input \in ClassifyInputs
    /\ output = Pending

NextClassify == GetDevice

SpecClassify == InitClassify /\ [][NextClassify]_vars

\* ============================================================== properties
\* The number of POSTs of the call with the given method.
NetCount(log, method) ==
    Cardinality({ i \in DOMAIN log : log[i].payload.method = method })

\* The first POST of the call was answered "token expired", the refresh-token
\* request that followed was answered with error_code 0 and a new token, and
\* the request was sent again and answered with error_code 0.
ExpiredThenBothOk ==
    /\ Len(netlog) >= 3
    /\ netlog[1].answered /\ netlog[1].code = TOKEN_EXPIRED
    /\ netlog[2].payload.method = "refreshToken"
    /\ netlog[2].answered /\ netlog[2].code = 0 /\ HasKey(netlog[2].result, "token")
    /\ netlog[3].payload.method = netlog[1].payload.method
    /\ netlog[3].answered /\ netlog[3].code = 0

\* C1: when the first response to an authenticated request is the expired-token
\* code and the refresh and the resent request are both answered with
\* error_code 0, the call makes exactly two further network calls (refresh,
\* then retry) and returns the decoded result of the retry without an error.
C1_RetryReturnsResult ==
    (last.op = "request" /\ ExpiredThenBothOk) =>
        /\ op = Idle
        /\ Len(netlog) = 3
        /\ last.exc = "none"
        /\ last.ret = Unwrap(Val(netlog[3].result.wrap + 1, netlog[3].result.body))

\* C2: refresh-and-retry is one-shot: within one call the request is resent at
\* most once and the token is refreshed at most once, whatever the server answers.
C2_OneShot ==
    (op.name = "request" \/ last.op = "request") /\ netlog # <<>> =>
        /\ NetCount(netlog, "refreshToken") <= 1
        /\ NetCount(netlog, netlog[1].payload.method) <= 2

\* The request in flight is answered in this step; its log entry afterwards.
AnsweredNow == Posted /\ netlog'[Len(netlog)].answered
TheAnswer == netlog'[Len(netlog)]

LoginShaped(t) == Has(t, "token") /\ Has(t, "refresh_token") /\ Has(t, "client_id")

\* C4: on a session whose TokenSet has the login shape, refresh issues one
\* refresh-token request carrying the stored refresh token and client id, and a
\* successful response replaces the access token and nothing else.
C4_RefreshOnLoginShape ==
    [][ /\ (AnsweredNow /\ LoginShaped(tokens) /\ TheAnswer.code = TOKEN_EXPIRED) =>
              /\ Len(netlog') = Len(netlog) + 1
              /\ netlog'[Len(netlog')].payload.method = "refreshToken"
              /\ netlog'[Len(netlog')].payload.refreshToken = tokens["refresh_token"]
              /\ netlog'[Len(netlog')].payload.terminalUUID = tokens["client_id"]
        /\ (/\ AnsweredNow /\ LoginShaped(tokens) /\ PostedMethod = "refreshToken"
            /\ TheAnswer.code = 0 /\ HasKey(TheAnswer.result, "token")) =>
              tokens' = [tokens EXCEPT !["token"] = TheAnswer.result.body.token] ]_vars

\* The steps in which the TokenSet mutates: a login or a refresh succeeds.
LoginSucceeds == op.name = "auth" /\ Posted /\ op' = Idle /\ last'.exc = "none"
RefreshSucceeds ==
    /\ AnsweredNow /\ PostedMethod = "refreshToken"
    /\ TheAnswer.code = 0 /\ HasKey(TheAnswer.result, "token")

\* C5: whenever the TokenSet is created by a login or its access token is
\* replaced by a refresh, a supplied change callback is invoked once with the
\* new TokenSet.
C5_CallbackOnMutation ==
    [][ ((LoginSucceeds \/ RefreshSucceeds) /\ has_callback) =>
            cb_log' = Append(cb_log, tokens') ]_vars

\* The arguments of the running or last auth call.
AuthArgs == IF op.name = "auth" THEN op.args ELSE last.args

\* C6: auth resolves credentials in order: supplied tokens are used as they are,
\* with no network call; else without a username the TokenSet is loaded from
\* the token file, failing with MissingCredentials when there is no file, with
\* no network call; else without a password it fails with MissingCredentials
\* before any request; only otherwise is one login request sent, and the
\* TokenSet is built from its response.
C6_AuthResolution ==
    (op.name = "auth" \/ last.op = "auth") =>
        IF Truthy(AuthArgs.tok)
        THEN /\ op = Idle /\ last.exc = "none" /\ session = "ready"
             /\ tokens = AuthArgs.tok
             /\ netlog = <<>>
        ELSE IF ~AuthArgs.username
        THEN /\ op = Idle /\ netlog = <<>>
             /\ IF tokenFile.exists
                THEN last.exc = "none" /\ session = "ready" /\ tokens = tokenFile.content
                ELSE last.exc = "MissingCredentials" /\ session = "none"
        ELSE IF ~AuthArgs.password
        THEN /\ op = Idle /\ netlog = <<>>
             /\ last.exc = "MissingCredentials" /\ session = "none"
        ELSE /\ NetCount(netlog, "login") = 1
             /\ netlog[1].payload.method = "login"
             /\ session = "ready" =>
                  /\ last.exc = "none"
                  /\ netlog[1].answered /\ netlog[1].code = 0
                  /\ tokens = LoginTokens(netlog[1].result.body.token,
                                          netlog[1].result.body.refreshToken,
                                          netlog[1].payload.terminalUUID)

\* A login with username and password succeeded while a token file existed.
C6_Witness ==
    /\ op = Idle /\ last.op = "auth" /\ session = "ready"
    /\ ~Truthy(last.args.tok) /\ last.args.username /\ last.args.password
    /\ Len(netlog) = 1 /\ Has(tokens, "refresh_token")

\* C7: with caching enabled the token file holds the session's TokenSet after
\* every successful login and every successful refresh; with caching disabled
\* no step writes the token file.
C7_TokenFileFollowsTokenSet ==
    [][ /\ ((LoginSucceeds \/ RefreshSucceeds) /\ cache_token') =>
              tokenFile' = [exists |-> TRUE, content |-> tokens']
        /\ ~cache_token' => tokenFile' = tokenFile ]_vars

\* With caching enabled a refresh succeeded and the file holds the new TokenSet.
C7_Witness ==
    /\ cache_token /\ tokenFile.exists /\ tokenFile.content = tokens
    /\ \E i \in DOMAIN netlog :
          /\ netlog[i].payload.method = "refreshToken"
          /\ netlog[i].answered /\ netlog[i].code = 0
          /\ tokens["token"] = netlog[i].result.body.token

\* Access token, refresh token (under either key the code uses) and client id.
AllThree(t) ==
    /\ Has(t, "token")
    /\ Has(t, "refresh_token") \/ Has(t, "resfresh_token")
    /\ Has(t, "client_id")

\* C8: whenever an authenticated request has been handed to the transport, the
\* session's TokenSet has its access token, refresh token and client id.
C8_TokenSetComplete ==
    (\E i \in DOMAIN netlog : netlog[i].payload.token # Absent) => AllThree(tokens)

Ids(list) == { list[i].deviceId : i \in DOMAIN list }

\* C9: a get-devices call on a registry that has already obtained a listing, or
\* that has a readable file cache, makes no network call and returns the
\* in-memory mapping when there is one.
C9_CachedListingNoNetwork ==
    [][ (GetDevices /\ (listed \/ (file_cache /\ devFile.exists))) =>
            /\ netlog' = <<>>
            /\ op' = Idle /\ last'.exc = "none"
            /\ DOMAIN cache # {} => cache' = cache ]_vars

\* C10: a registry refresh posts getDeviceList whatever the caches hold (once,
\* when the first answer is error_code 0); when it succeeds the mapping's keys
\* are exactly the deviceIds of the new listing, each mapped to a record of
\* that listing, and a configured file cache holds the new listing response.
C10_RefreshReplaces ==
    (op.name = "refresh_devices" \/ last.op = "refresh_devices") =>
        /\ netlog # <<>>
        /\ netlog[1].payload.method = "getDeviceList"
        /\ (netlog[1].answered /\ netlog[1].code = 0) => Len(netlog) = 1
        /\ (last.op = "refresh_devices" /\ last.exc = "none") =>
              LET list == netlog[Len(netlog)].result.body.deviceList IN
              /\ DOMAIN cache = Ids(list)
              /\ \A id \in DOMAIN cache :
                    \E i \in DOMAIN list : list[i].deviceId = id /\ cache[id].data = list[i]
              /\ file_cache =>
                    /\ devFile.exists
                    /\ devFile.content = Val(0, ListBody(list))

\* A refresh succeeded on a registry with a file cache and a non-empty listing.
C10_Witness ==
    /\ op = Idle /\ last.op = "refresh_devices" /\ last.exc = "none"
    /\ file_cache /\ devFile.exists
    /\ DOMAIN cache = {"d1"}
    /\ Len(devFile.content.body.deviceList) = 1

\* What the classification decides on.
IsPlugSwitch(device) == device.deviceType = "IOT.SMARTPLUGSWITCH"
HasPlug(device) == Contains(PlugName, device.deviceName)
HasSwitch(device) == Contains(SwitchName, device.deviceName)

\* C11: the classification is an ordered dispatch: a plug-switch record whose
\* name contains "Plug" gives a Plug, also when the name contains "Switch" too;
\* otherwise a plug-switch record whose name contains "Switch" gives a Switch;
\* otherwise a bulb record gives a Light whatever its name; every other record
\* fails with the unknown-device-type error.  The constructor of the variant
\* returned accepts the record.
C11_ClassifyDispatch ==
    output.done =>
        /\ output.variant = "Plug" <=> (IsPlugSwitch(input) /\ HasPlug(input))
        /\ output.variant = "Switch" <=>
              (IsPlugSwitch(input) /\ ~HasPlug(input) /\ HasSwitch(input))
        /\ output.variant = "Light" <=> input.deviceType = "IOT.SMARTBULB"
        /\ output.variant = "none" <=> output.exc = "UnknownDeviceType"
        /\ output.variant # "none" =>
              /\ output.exc = "none"
              /\ Construct(output.variant, input) = "none"

\* A plug-switch record whose name contains both words has been classified.
C11_Witness ==
    /\ output.done /\ IsPlugSwitch(input) /\ HasPlug(input) /\ HasSwitch(input)
    /\ output.variant = "Plug"

\* C12: when the decoded response has no entry for the request type the call
\* fails with the cloud error naming that type; else when that entry has no
\* entry for the sub-request type it fails with the cloud error naming the
\* sub-request; else when the sub-response's err_code is neither null nor 0 it
\* fails with the cloud error; otherwise it returns exactly
\* response[request type][sub-request type].
C12_UnwrapPassthrough ==
    output.done =>
        LET response == input.response
            type == input.request_type
            sub == input.subrequest_type
        IN IF type \notin DOMAIN response
           THEN /\ output.exc = "KasaCloudError"
                /\ \E i \in DOMAIN output.names : output.names[i] = type
           ELSE IF sub \notin DOMAIN response[type]
           THEN /\ output.exc = "KasaCloudError"
                /\ \E i \in DOMAIN output.names : output.names[i] = sub
           ELSE IF response[type][sub].d["err_code"] \notin {NoInt, 0}
           THEN output.exc = "KasaCloudError"
           ELSE output.exc = "none" /\ output.ret = response[type][sub]

\* A sub-response with a non-zero err_code was refused although the response
\* also holds good answers under the other names.
C12_Witness ==
    /\ output.done /\ output.exc = "KasaCloudError" /\ output.names = <<>>
    /\ DOMAIN input.response = RequestTypes
    /\ DOMAIN input.response[input.request_type] = SubTypes

\* The command of a Device that is running, or else the last one: its name,
\* device and arguments.
TheCommand ==
    IF op.name # "idle"
    THEN [name |-> op.name, dev |-> op.dev, cmd |-> op.cmd]
    ELSE [name |-> last.op, dev |-> last.dev, cmd |-> last.cmd]

\* The command has ended with one of the validation errors.
ValidationError == op = Idle /\ last.exc \in {"ValueError", "TypeError"}

\* C13: set_brightness with a brightness outside 0..100 or not an integer, and
\* set_hsv with a hue outside 0..360 or a saturation outside 0..100, fail with a
\* validation error before any network call, whether or not the Light has its
\* info cached.
C13_ValidationBeforeNetwork ==
    LET c == TheCommand.cmd IN
    \/ /\ TheCommand.name = "set_brightness"
       /\ ~c.isInt \/ c.brightness < 0 \/ c.brightness > 100
    \/ /\ TheCommand.name = "set_hsv"
       /\ c.hue < 0 \/ c.hue > 360 \/ c.saturation < 0 \/ c.saturation > 100
    => ValidationError /\ netlog = <<>>

\* The Device of the command, its listing entry, and what its info reports.
TheData == cache[TheCommand.dev].data
Reports(key, n) == InfoOf(Cur, TheCommand.dev).d[key] = n

\* Every request of the command so far was answered by the physical device.
DeviceAnsweredAll == \A i \in DOMAIN netlog : netlog[i].answered /\ netlog[i].device

\* The command has posted a request with this sub-request type.
Issued(sub) ==
    \E i \in DOMAIN netlog : netlog[i].payload.requestData.sub = sub

\* C14: on an online Light whose device is dimmable and answers every request
\* itself, set_brightness(b) with b in 0..100 succeeds and leaves the device
\* at brightness b, and get_brightness returns the brightness the device
\* holds; on a color-capable one set_hsv(h, s) with h in 0..360 and s in
\* 0..100 succeeds.
C14_BrightnessRoundTrip ==
    LET c == TheCommand.cmd
        d == TheCommand.dev
    IN (/\ op = Idle /\ last.op \in {"set_brightness", "get_brightness", "set_hsv"}
        /\ Online(TheData) /\ DeviceAnsweredAll) =>
          /\ (/\ last.op = "set_brightness"
              /\ phys[d].sysinfo["is_dimmable"] = 1
              /\ c.isInt /\ 0 <= c.brightness /\ c.brightness <= 100) =>
                 /\ last.exc = "none"
                 /\ phys[d].light_state["brightness"] = c.brightness
          /\ (last.op = "get_brightness" /\ phys[d].sysinfo["is_dimmable"] = 1) =>
                 /\ last.exc = "none"
                 /\ last.out.nums = << phys[d].light_state["brightness"] >>
          /\ (/\ last.op = "set_hsv"
              /\ phys[d].sysinfo["is_color"] = 1
              /\ 0 <= c.hue /\ c.hue <= 360 /\ 0 <= c.saturation /\ c.saturation <= 100
              /\ c.brightness = NoInt) =>
                 last.exc = "none"

\* The command has ended with the unsupported-operation error and has issued
\* no transition_light_state request.
Unsupported ==
    op = Idle /\ last.exc = "NotSupported" /\ ~Issued("transition_light_state")

\* The flag of the device's sysinfo that the command depends on.
FlagOf(name) ==
    CASE name = "set_brightness" -> "is_dimmable"
      [] name = "set_hsv" -> "is_color"
      [] OTHER -> "is_variable_color_temp"

\* A setter whose capability flag the device does not have never issues a
\* transition_light_state request.
NoFlagNoTransition ==
    (/\ TheCommand.name \in {"set_brightness", "set_hsv", "set_color_temp"}
     /\ phys[TheCommand.dev].sysinfo[FlagOf(TheCommand.name)] = 0) =>
        ~Issued("transition_light_state")

\* C15 as stated: set_hsv and set_color_temp on a Light whose info reports
\* is_color false fail with the unsupported-operation error and issue no
\* transition_light_state request; and a setter whose capability flag is
\* absent never issues one.
C15_ColorGatesBoth ==
    /\ (TheCommand.name \in {"set_hsv", "set_color_temp"} /\ Reports("is_color", 0)) =>
          Unsupported
    /\ NoFlagNoTransition

\* C15: set_hsv on a Light whose info reports is_color false, and
\* set_color_temp on a Light whose info reports is_variable_color_temp false,
\* fail with the unsupported-operation error and issue no
\* transition_light_state request; and a setter whose capability flag is
\* absent never issues one.
C15_FlagGatesSetter ==
    /\ (TheCommand.name = "set_hsv" /\ Reports("is_color", 0)) => Unsupported
    /\ (TheCommand.name = "set_color_temp" /\ Reports("is_variable_color_temp", 0)) =>
          Unsupported
    /\ NoFlagNoTransition

\* set_color_temp was refused on a Light that had to fetch its info first.
C15_Witness ==
    /\ last.op = "set_color_temp" /\ Unsupported
    /\ Reports("is_variable_color_temp", 0)
    /\ Issued("get_sysinfo")

\* The range set_color_temp is to validate against: that of the table entry
\* the model matches, else the default.
RangeOf(data) ==
    IF \E e \in TPLINK_KELVIN : Match(e.model, data.model)
    THEN LET e == CHOOSE e \in TPLINK_KELVIN : Match(e.model, data.model)
         IN [lo |-> e.lo, hi |-> e.hi]
    ELSE [lo |-> 2700, hi |-> 5000]

\* C16: set_color_temp(t) on a Light with the color-temperature capability
\* validates t against the range of the table entry its model matches, and
\* against 2700..5000 only when no entry matches: it issues the
\* transition_light_state request exactly when t is in that range, and fails
\* with the validation error otherwise.
C16_ModelRange ==
    LET t == TheCommand.cmd.temp
        range == RangeOf(TheData)
    IN (/\ TheCommand.name = "set_color_temp" /\ TheCommand.cmd.brightness = NoInt
        /\ TheData.hasModel
        /\ Reports("is_variable_color_temp", 1)) =>
          IF range.lo <= t /\ t <= range.hi
          THEN Issued("transition_light_state")
          ELSE ValidationError /\ ~Issued("transition_light_state")

\* The requests the command itself issued: its passthrough requests that are
\* not resends after a refresh.  The answers that carried the expired-token code.
OwnRequests ==
    { i \in DOMAIN netlog :
        /\ netlog[i].payload.method = "passthrough"
        /\ i = 1 \/ netlog[i - 1].payload.method # "refreshToken" }
ExpiredAnswers ==
    { i \in DOMAIN netlog : netlog[i].answered /\ netlog[i].code = TOKEN_EXPIRED }

\* C17 as stated: every device command issues at most one network round trip,
\* or two when the token-expiry retry path is taken.
C17_OneRoundTrip ==
    TheCommand.dev # Absent =>
        NetCount(netlog, "passthrough") <= IF ExpiredAnswers = {} THEN 1 ELSE 2

\* C17: every device command issues at most two requests of its own: one for
\* is_on, turn_on, turn_off and capabilities, and up to two for toggle (the
\* state read, then the switch) and for the Light's setters and getters (the
\* sysinfo fetch when the info is not cached, then the command's request);
\* every expired-token answer adds at most one refresh request and one resend.
C17_AtMostTwoOwnRequests ==
    TheCommand.dev # Absent =>
        /\ Cardinality(OwnRequests) <=
              IF TheCommand.name \in {"is_on", "turn_on", "turn_off", "capabilities"}
              THEN 1 ELSE 2
        /\ Len(netlog) <= Cardinality(OwnRequests) + 2 * Cardinality(ExpiredAnswers)

\* A toggle made its two requests, the second of which was answered with the
\* expired-token code, refreshed and resent.
C17_Witness ==
    /\ op = Idle /\ last.op = "toggle"
    /\ Len(netlog) = 4 /\ OwnRequests = {1, 2} /\ ExpiredAnswers = {2}

\* The refresh-token requests of the call that were answered with a new token.
Refreshed ==
    { i \in DOMAIN netlog :
        /\ netlog[i].payload.method = "refreshToken"
        /\ netlog[i].answered /\ netlog[i].code = 0
        /\ HasKey(netlog[i].result, "token") }

\* C18: every authenticated request sent after a successful token refresh
\* carries the access token of the latest refresh before it; so does the
\* request resent by the refresh-and-retry path.
C18_ResendCarriesNewToken ==
    \A j \in DOMAIN netlog : \A i \in Refreshed :
        (/\ i < j /\ netlog[j].payload.token # Absent
         /\ \A k \in Refreshed : k <= i \/ k >= j) =>
            netlog[j].payload.token = netlog[i].result.body.token

\* The info cache a Device observes, and the Device the step's command is on.
Observed(d) == InfoOf(Cur, d)
StepDevice ==
    IF op.dev # Absent THEN op.dev ELSE IF op'.dev # Absent THEN op'.dev ELSE last'.dev

\* C19: no step of a command on one Device changes the info cache observed by
\* any other Device.
C19_CacheIsolation ==
    [][ \A d \in {"d1", "d2"} : d # StepDevice => Observed(d)' = Observed(d) ]_vars

\* The flags the claim derives: from the sysinfo the physical device holds, and
\* from the listing's model and hardware version.
SysinfoFlags(sysinfo) ==
    (IF sysinfo["is_dimmable"] = 1 THEN {"DIMMABLE"} ELSE {})
    \cup (IF sysinfo["is_color"] = 1 THEN {"COLOR"} ELSE {})
    \cup (IF sysinfo["is_variable_color_temp"] = 1 THEN {"COLOR_TEMP"} ELSE {})
NetinfoFlag(data) ==
    IF data.deviceModel = "HS100(US)" /\ data.deviceHwVer = "1.0" THEN {} ELSE {"NETINFO"}

\* C20: capabilities() on an online bulb whose requests, if any, the device
\* answered itself, returns exactly the flags of the device's sysinfo
\* booleans and the netinfo flag of its model and hardware version, whatever
\* commands ran before it.
C20_CapabilitiesFromSysinfo ==
    (/\ op = Idle /\ last.op = "capabilities"
     /\ TheData.deviceType = "IOT.SMARTBULB" /\ Online(TheData)
     /\ DeviceAnsweredAll) =>
        /\ last.exc = "none"
        /\ last.out.caps = NetinfoFlag(TheData) \cup SysinfoFlags(phys[last.dev].sysinfo)

\* The command is on a Plug or a Switch; its own set_relay_state requests; what
\* is_on reports from the sysinfo answer in entry i of the network log.
PlugCommand ==
    /\ TheCommand.dev # Absent
    /\ cache[TheCommand.dev].variant \in {"Plug", "Switch"}
RelayRequests ==
    { i \in OwnRequests : netlog[i].payload.requestData.sub = "set_relay_state" }
SysinfoAnswered(i) ==
    /\ netlog[i].payload.requestData.sub = "get_sysinfo"
    /\ netlog[i].answered /\ netlog[i].code = 0
IsOnReport(i) ==
    LET sysinfo == netlog[i].result.body.responseData.text["system"]["get_sysinfo"].d
    IN IF sysinfo["relay_state"] # NoInt THEN sysinfo["relay_state"] = 1
       ELSE TheData.status = 1

\* turn_on (turn_off) has issued one set_relay_state request with state 1 (0)
\* and nothing else of its own; toggle issues get_sysinfo first and at most
\* one set_relay_state, after the sysinfo answer, with the state opposite to
\* what is_on reports from that answer, and exactly one when it succeeds.
RelayRequestsRight ==
    PlugCommand =>
        /\ TheCommand.name \in {"turn_on", "turn_off"} =>
              /\ OwnRequests = {1} /\ RelayRequests = {1}
              /\ netlog[1].payload.requestData.request["state"] =
                    IF TheCommand.name = "turn_on" THEN 1 ELSE 0
        /\ TheCommand.name = "toggle" =>
              /\ netlog # <<>> => netlog[1].payload.requestData.sub = "get_sysinfo"
              /\ Cardinality(RelayRequests) <= 1
              /\ (op = Idle /\ last.exc = "none") => Cardinality(RelayRequests) = 1
              /\ \A i \in RelayRequests :
                    /\ i > 1 /\ SysinfoAnswered(i - 1)
                    /\ netlog[i].payload.requestData.request["state"] =
                          IF IsOnReport(i - 1) THEN 0 ELSE 1

\* The info cache Device d observes after the step.
ObservedNext(d) == IF ownInfo'[d].own THEN ownInfo'[d].info ELSE classInfo'

\* C21: on a Plug or Switch, turn_on (turn_off) issues one set_relay_state
\* request with state 1 (0) and sets the cached relay_state to 1 (0) in the
\* step in which the command succeeds, no step of the command changing the
\* cache otherwise; toggle reads the state as is_on does (sysinfo fetched
\* again, relay_state, else the listing's status) and then issues exactly one
\* set_relay_state with the opposite state.
C21_RelaySwitching ==
    [][ /\ RelayRequestsRight'
        /\ (PlugCommand' /\ TheCommand'.name \in {"turn_on", "turn_off"}) =>
              LET d == TheCommand'.dev
                  on == IF TheCommand'.name = "turn_on" THEN 1 ELSE 0
              IN IF op' = Idle /\ last'.exc = "none"
                 THEN ObservedNext(d) = [Observed(d) EXCEPT !.d["relay_state"] = on]
                 ELSE ObservedNext(d) = Observed(d) ]_vars

\* A toggle of a Plug whose sysinfo answer had no relay_state succeeded: the
\* listing's status said on, the request sent state 0 and the cache holds 0.
C21_Witness ==
    /\ PlugCommand /\ op = Idle /\ last.op = "toggle" /\ last.exc = "none"
    /\ RelayRequests = {2} /\ ~netlog[1].device
    /\ netlog[2].payload.requestData.request["state"] = 0
    /\ Observed(last.dev).d["relay_state"] = 0

\* _set_light_state has been called; its own transition_light_state requests.
SetLightStateCalled == op.name = "_set_light_state" \/ last.op = "_set_light_state"
TransitionRequests ==
    { i \in OwnRequests :
        /\ netlog[i].payload.requestData.type = LightingService
        /\ netlog[i].payload.requestData.sub = "transition_light_state" }

\* The payload the claim describes for a partial state and a transition.
ExpectedLightState(state, transition) ==
    LET given == { k \in FlatKeys : state[k] # NoInt }
                 \cup (IF transition # NoInt THEN {"transition_period"} ELSE {})
        on == IF state["on_off"] = NoInt THEN 1 ELSE state["on_off"]
    IN [k \in FlatKeys |->
          IF k = "transition_period" /\ transition # NoInt THEN transition
          ELSE IF k = "on_off" THEN on
          ELSE IF k = "ignore_default"
          THEN IF on = 1 /\ given \subseteq {"transition_period", "on_off"} THEN 0 ELSE 1
          ELSE state[k]]

OneTransitionRequest ==
    /\ OwnRequests = {1} /\ TransitionRequests = {1}
    /\ netlog[1].payload.deviceId = "d2"
    /\ netlog[1].payload.requestData.request =
          ExpectedLightState(input.state, input.transition)

StartsWithGetInfo(d) ==
    /\ op = Idle /\ TheCommand'.dev = d
    /\ \/ /\ cache[d].variant \in {"Plug", "Switch"}
          /\ TheCommand'.name \in {"is_on", "toggle"}
       \/ /\ cache[d].variant = "Light"
          /\ TheCommand'.name \notin {"is_on", "turn_on", "turn_off", "toggle"}
          /\ Observed(d) = EmptyInfo

\* The step is the physical device's answer to a get_sysinfo request of the
\* command's own.
SysinfoReturned ==
    /\ AnsweredNow /\ Len(netlog) \in OwnRequests /\ TheAnswer.device
    /\ TheAnswer.payload.requestData.sub = "get_sysinfo"

\* C23: _get_info on a Device whose listing status is falsy ends with the
\* "device must be online" error, no request sent and the info cache as it
\* was; on an online Device it sends one system/get_sysinfo passthrough
\* request, no command sends a second one of its own, and the sysinfo the
\* device returns becomes the Device's info.
C23_EnsureInfo ==
    [][ /\ \A d \in DOMAIN cache :
              StartsWithGetInfo(d) =>
                  IF ~Online(cache[d].data)
                  THEN /\ op' = Idle /\ last'.exc = "MustBeOnline" /\ netlog' = <<>>
                       /\ ObservedNext(d) = Observed(d)
                  ELSE /\ Len(netlog') = 1
                       /\ netlog'[1].payload.method = "passthrough"
                       /\ netlog'[1].payload.deviceId = d
                       /\ netlog'[1].payload.requestData =
                             [type |-> "system", sub |-> "get_sysinfo", request |-> EmptyFlat]
                       /\ ObservedNext(d) = Observed(d)
        /\ SysinfoReturned =>
              ownInfo'[op.dev] =
                  [own |-> TRUE,
                   info |-> TheAnswer.result.body.responseData.text["system"]["get_sysinfo"]]
        /\ Cardinality({ i \in DOMAIN netlog' :
                            /\ netlog'[i].payload.requestData.sub = "get_sysinfo"
                            /\ i = 1 \/ netlog'[i - 1].payload.method # "refreshToken" }) <= 1
      ]_vars

\* is_on of an offline Plug has failed with the "device must be online" error
\* and sent nothing.
C23_Witness ==
    /\ op = Idle /\ last.op = "is_on" /\ last.exc = "MustBeOnline"
    /\ cache[last.dev].variant = "Plug" /\ ~Online(cache[last.dev].data)
    /\ netlog = <<>> /\ Observed(last.dev) = EmptyInfo

\* A refresh of the registry is under way: async_refresh_devices, called by
\* the user or by async_get_devices, has sent its request.
Refreshing == op.name \in {"refresh_devices", "get_devices"}

\* C24: no step of a registry refresh that is still waiting or that ends with
\* an exception (the getDeviceList request failed, the listing has no
\* deviceList, a record cannot be classified) changes the device mapping, the
\* Devices' info caches or the cache file.
C24_FailedRefreshKeepsCaches ==
    [][ (Refreshing /\ (op' # Idle \/ last'.exc # "none")) =>
            /\ cache' = cache /\ listed' = listed
            /\ devFile' = devFile
            /\ ownInfo' = ownInfo /\ classInfo' = classInfo ]_vars

\* A refresh of a registry that holds the Light failed on a listing of the
\* Plug and a record of unknown type: the mapping still holds the Light only,
\* and the cache file holds the earlier listing.
C24_Witness ==
    /\ op = Idle /\ last.op = "refresh_devices" /\ last.exc = "UnknownDeviceType"
    /\ DOMAIN cache = {"d2"}
    /\ file_cache /\ devFile.exists
    /\ netlog[Len(netlog)].result.body.deviceList # devFile.content.body.deviceList
    /\ \E i \in DOMAIN netlog[Len(netlog)].result.body.deviceList :
          netlog[Len(netlog)].result.body.deviceList[i].deviceId = "d1"

====
